---- MODULE Spec2Model ----
(***************************************************************************)
(* Model of pip's TUF integration: SecureRepository (one-shot metadata     *)
(* refresh, verified index / distribution download) and                    *)
(* SecureRepositoryManager (index url -> SecureRepository map).            *)
(*                                                                         *)
(* Python str values are sequences of one-character strings, so that       *)
(* rstrip, rpartition, split, join and indexing are computed as the code   *)
(* computes them.  The TUF Updater is an external collaborator: every call *)
(* to it is recorded, and its outcome is drawn from the outcomes its       *)
(* interface allows.                                                       *)
(***************************************************************************)
EXTENDS Integers, Sequences, FiniteSets, TLC

VARIABLES
    _refreshed,             \* SecureRepository._refreshed
    progress_bar,           \* PipFetcher.progress_bar of the repository's fetcher
    config,                 \* Updater.config.prefix_targets_with_hash
    _distribution_mirrors,  \* SecureRepository._distribution_mirrors
    refresh_calls,          \* history: Updater.refresh() invocations so far
    refresh_failures,       \* history: Updater.refresh() invocations that raised
    last,                   \* history: the last SecureRepository operation
    manager,                \* SecureRepositoryManager construction status
    _repositories,          \* SecureRepositoryManager._repositories (its keys)
    fs,                     \* <tuf_metadata_dir>/<bootstrap> on disk
    lookup,                 \* history: the last SecureRepositoryManager operation
    pc,                     \* where each thread stands in its download call
    callers                 \* the threads that use the SecureRepository

vars == <<_refreshed, progress_bar, config, _distribution_mirrors, refresh_calls,
          refresh_failures, last, manager, _repositories, fs, lookup,
          pc, callers>>

repo_vars == <<_refreshed, progress_bar, config, _distribution_mirrors,
               refresh_calls, refresh_failures, last>>

manager_vars == <<manager, _repositories, fs, lookup>>

thread_vars == <<pc, callers>>

---------------------------------------------------------------------------
(* Bounds *)

\* Updater.refresh() invocations explored on one repository
MaxRefreshCalls == 3

\* longest suffix appended to an index url to form a project url
MaxSuffixLen == 3

\* longest index_urls list handed to SecureRepositoryManager
MaxIndexUrls == 2

---------------------------------------------------------------------------
(* Python str helpers *)

Rep(c, n) == [i \in 1..n |-> c]

Last(s) == s[Len(s)]

RECURSIVE RStrip(_, _)
\* str.rstrip(c)
RStrip(s, c) ==
    IF s # <<>> /\ Last(s) = c THEN RStrip(SubSeq(s, 1, Len(s) - 1), c) ELSE s

\* positions of character c in s
Positions(s, c) == {i \in 1..Len(s) : s[i] = c}

Max(S) == CHOOSE x \in S : \A y \in S : y <= x

Min(S) == CHOOSE x \in S : \A y \in S : x <= y

\* str.rpartition(c): <<head, sep, tail>>, or <<"", "", s>> when c is absent
RPartition(s, c) ==
    IF Positions(s, c) = {}
    THEN <<<<>>, <<>>, s>>
    ELSE LET i == Max(Positions(s, c))
         IN <<SubSeq(s, 1, i - 1), <<c>>, SubSeq(s, i + 1, Len(s))>>

RECURSIVE Split(_, _)
\* str.split(c): the list of segments between occurrences of c
Split(s, c) ==
    IF Positions(s, c) = {}
    THEN <<s>>
    ELSE LET i == Min(Positions(s, c))
         IN <<SubSeq(s, 1, i - 1)>> \o Split(SubSeq(s, i + 1, Len(s)), c)

RECURSIVE Join(_, _)
\* sep.join(list)
Join(sep, list) ==
    IF list = <<>> THEN <<>>
    ELSE IF Len(list) = 1 THEN list[1]
    ELSE list[1] \o sep \o Join(sep, Tail(list))

\* list[a:b] with Python's negative indices, for a list slice lst[-k:] or lst[-k:-1]
SliceFromEnd(lst, k, drop) ==
    LET n == Len(lst)
        lo == IF n - k < 0 THEN 0 ELSE n - k
        hi == IF n - drop < 0 THEN 0 ELSE n - drop
    IN SubSeq(lst, lo + 1, hi)

\* list[:-k]
SliceToEnd(lst, k) ==
    LET n == Len(lst)
        hi == IF n - k < 0 THEN 0 ELSE n - k
    IN SubSeq(lst, 1, hi)

\* schemes urllib.parse lists in uses_netloc, among those the model draws
UsesNetloc == {<<"h", "t", "t", "p">>, <<"h", "t", "t", "p", "s">>}

\* urllib.parse.urlsplit for urls without query and fragment
urlsplit(u) ==
    LET colons == Positions(u, ":")
        hasScheme == colons # {} /\ Min(colons) > 1
        scheme == IF hasScheme THEN SubSeq(u, 1, Min(colons) - 1) ELSE <<>>
        rest == IF hasScheme THEN SubSeq(u, Min(colons) + 1, Len(u)) ELSE u
        hasNetloc == Len(rest) >= 2 /\ SubSeq(rest, 1, 2) = <<"/", "/">>
        after == IF hasNetloc THEN SubSeq(rest, 3, Len(rest)) ELSE rest
        slashes == Positions(after, "/")
        netloc == IF ~hasNetloc THEN <<>>
                  ELSE IF slashes = {} THEN after
                  ELSE SubSeq(after, 1, Min(slashes) - 1)
        path == IF ~hasNetloc THEN rest
                ELSE IF slashes = {} THEN <<>>
                ELSE SubSeq(after, Min(slashes), Len(after))
    IN [scheme |-> scheme, netloc |-> netloc, path |-> path]

\* urllib.parse.urlunsplit([scheme, netloc, path, '', ''])
urlunsplit(scheme, netloc, path) ==
    LET url1 == IF netloc # <<>>
                   \/ (scheme \in UsesNetloc
                       /\ ~(Len(path) >= 2 /\ SubSeq(path, 1, 2) = <<"/", "/">>))
                THEN <<"/", "/">> \o netloc
                     \o (IF path # <<>> /\ Head(path) # "/" THEN <<"/">> ELSE <<>>)
                     \o path
                ELSE path
    IN IF scheme # <<>> THEN scheme \o <<":">> \o url1 ELSE url1

---------------------------------------------------------------------------
(* Exceptions *)

\* isinstance(exception of class exc, cls) for the tuf.api.exceptions classes
IsInstance(exc, cls) ==
    \/ exc = cls
    \/ exc = "UnsignedMetadataError" /\ cls = "RepositoryError"

\* what the Updater may raise: trust verification and transport failures
RepositoryErrors == {"RepositoryError", "UnsignedMetadataError"}

DownloadErrors == {"DownloadError"}

UpdaterErrors == RepositoryErrors \cup DownloadErrors

RefreshOutcomes == {"ok"} \cup UpdaterErrors

TargetinfoOutcomes == {"target", "None"} \cup UpdaterErrors

DownloadTargetOutcomes == {"path"} \cup UpdaterErrors

---------------------------------------------------------------------------
(* SecureRepository *)

\* index url the modelled SecureRepository was constructed with
RepoIndexUrl ==
    <<"h", "t", "t", "p", ":", "/", "/", "l", "o", "c", "a", "l", "h", "o", "s",
      "t", ":", "9", "0", "0", "1", "/", "s", "i", "m", "p", "l", "e", "/">>

\* SecureRepository._base_url
_base_url ==
    LET split_url == urlsplit(RepoIndexUrl)
    IN urlunsplit(split_url.scheme, split_url.netloc, <<>>)

\* SecureRepository._distribution_mirrors as __init__ leaves it
InitialDistributionMirrors ==
    [u \in {_base_url} |->
        [url_prefix |-> _base_url,
         metadata_path |-> <<"s", "i", "m", "p", "l", "e", "/">>]]

\* length of the hash the three directory levels of a distribution path form
HashLen == 64

\* a pip Link: its scheme, netloc and path
Link(scheme, netloc, path) == [scheme |-> scheme, netloc |-> netloc, path |-> path]

NoLink == Link(<<>>, <<>>, <<>>)

Https == <<"h", "t", "t", "p", "s">>

FilesHost == <<"f", ".", "o", "r", "g">>

MirrorHost == <<"m", ".", "o", "r", "g">>

\* "/packages/<h1>/<h2>/<h3>/f"
PackagePath(h1, h2, h3) ==
    Join(<<"/">>, << <<>>, <<"p">>, h1, h2, h3, <<"f">> >>)

\* a well-formed link: 2 + 2 + 60 hexadecimal characters before the filename
LinkGood ==
    Link(Https, FilesHost, PackagePath(<<"8", "f">>, <<"1", "f">>, Rep("a", 60)))

\* the same path served by another host
LinkMirror ==
    Link(Https, MirrorHost, PackagePath(<<"8", "f">>, <<"1", "f">>, Rep("a", 60)))

\* 63 characters before the filename
LinkShort ==
    Link(Https, FilesHost, PackagePath(<<"8", "f">>, <<"1", "f">>, Rep("a", 59)))

\* 64 characters before the filename that are not hexadecimal digits
LinkNonHex ==
    Link(Https, FilesHost, PackagePath(<<"z", "z">>, <<"1", "f">>, Rep("z", 60)))

\* no directory levels before the filename
LinkNoDirs == Link(Https, FilesHost, <<"/", "f">>)

\* distribution links handed to download_distribution
Links == { LinkGood, LinkMirror, LinkShort, LinkNonHex, LinkNoDirs }

\* a well-formed link served by the index host itself, directly under its root
LinkOwnHost ==
    Link(<<"h", "t", "t", "p">>,
         <<"l", "o", "c", "a", "l", "h", "o", "s", "t", ":", "9", "0", "0", "1">>,
         Join(<<"/">>, << <<>>, <<"8", "f">>, <<"1", "f">>, Rep("a", 60), <<"f">> >>))

\* 64 hexadecimal characters in a single directory level before the filename
LinkOneLevel == Link(Https, FilesHost, Join(<<"/">>, << <<>>, Rep("a", 64), <<"f">> >>))

\* 65 characters before the filename
LinkLong ==
    Link(Https, FilesHost, PackagePath(<<"8", "f">>, <<"1", "f">>, Rep("a", 61)))

\* links handed to _split_distribution_url
SplitInputs == Links \cup { LinkOwnHost, LinkOneLevel, LinkLong }

\* project names handed to download_index
Projects == { <<"f", "o", "o">>, <<"b">> }

\* progress_bar values a caller requests
ProgressModes == {"on", "off"}

\* one recorded call to the Updater
Call(fn, outcome, progress) == [fn |-> fn, outcome |-> outcome, progress |-> progress]

Return(value) == [kind |-> "return", value |-> value]

Raise(exc) == [kind |-> "raise", value |-> exc]

\* _split_distribution_url accepting every hash path of at most HashLen characters
_split_distribution_url_atmost(link) ==
    LET split_path == Split(link.path, "/")
        blake2b == Join(<<>>, SliceFromEnd(split_path, 4, 1))
        target_name == Join(<<"/">>, SliceFromEnd(split_path, 4, 0))
        base_path == Join(<<"/">>, SliceToEnd(split_path, 4))
    IN [ok |-> Len(blake2b) <= HashLen,
        base_url |-> urlunsplit(link.scheme, link.netloc, base_path),
        target_name |-> target_name]

\* _split_distribution_url: [ok, base_url, target_name]; ~ok is the ValueError
_split_distribution_url(link) ==
    LET split_path == Split(link.path, "/")
        blake2b == Join(<<>>, SliceFromEnd(split_path, 4, 1))
        target_name == Join(<<"/">>, SliceFromEnd(split_path, 4, 0))
        base_path == Join(<<"/">>, SliceToEnd(split_path, 4))
    IN [ok |-> Len(blake2b) = HashLen,
        base_url |-> urlunsplit(link.scheme, link.netloc, base_path),
        target_name |-> target_name]

\* _split_distribution_url over the links drawn, evaluated once
SplitLinks == [l \in SplitInputs |-> _split_distribution_url(l)]

\* _ensure_distribution_mirror_config assigning the entry without looking
_ensure_distribution_mirror_config_overwriting(mirrors, mirror_url) ==
    [u \in DOMAIN mirrors \cup {mirror_url} |->
        IF u = mirror_url
        THEN [url_prefix |-> mirror_url, targets_path |-> <<>>]
        ELSE mirrors[u]]

\* _ensure_distribution_mirror_config: the mirror configuration afterwards
_ensure_distribution_mirror_config(mirrors, mirror_url) ==
    IF mirror_url \notin DOMAIN mirrors
    THEN [u \in DOMAIN mirrors \cup {mirror_url} |->
            IF u = mirror_url
            THEN [url_prefix |-> mirror_url, targets_path |-> <<>>]
            ELSE mirrors[u]]
    ELSE mirrors

\* _ensure_fresh_metadata going on after a refresh that raised
_ensure_fresh_metadata_swallowing(refreshed, r, progress) ==
    IF ~refreshed
    THEN [calls |-> <<Call("refresh", r, progress)>>,
          exc |-> "",
          refreshed |-> (r = "ok")]
    ELSE [calls |-> <<>>, exc |-> "", refreshed |-> refreshed]

\* _ensure_fresh_metadata without the _refreshed guard
_ensure_fresh_metadata_unguarded(refreshed, r, progress) ==
    [calls |-> <<Call("refresh", r, progress)>>,
     exc |-> IF r = "ok" THEN "" ELSE r,
     refreshed |-> (refreshed \/ r = "ok")]

\* _ensure_fresh_metadata trying a failed refresh a second time
_ensure_fresh_metadata_retrying(refreshed, r, progress) ==
    IF ~refreshed
    THEN [calls |-> IF r = "ok" THEN <<Call("refresh", r, progress)>>
                    ELSE <<Call("refresh", r, progress), Call("refresh", r, progress)>>,
          exc |-> IF r = "ok" THEN "" ELSE r,
          refreshed |-> (r = "ok")]
    ELSE [calls |-> <<>>, exc |-> "", refreshed |-> refreshed]

\* _ensure_fresh_metadata: the Updater calls it makes, the exception that
\* escapes it ("" for none) and _refreshed afterwards
_ensure_fresh_metadata(refreshed, r, progress) ==
    IF ~refreshed
    THEN [calls |-> <<Call("refresh", r, progress)>>,
          exc |-> IF r = "ok" THEN "" ELSE r,
          refreshed |-> (r = "ok")]
    ELSE [calls |-> <<>>, exc |-> "", refreshed |-> refreshed]

\* download_index absorbing every Updater failure into None
DownloadIndexHandler_absorbing(exc) ==
    IF IsInstance(exc, "RepositoryError") \/ IsInstance(exc, "DownloadError")
    THEN Return("None")
    ELSE Raise(exc)

\* download_index letting a DownloadError escape
DownloadIndexHandler_escaping(exc) ==
    IF IsInstance(exc, "RepositoryError") THEN Raise("RecursionError")
    ELSE Raise(exc)

\* the except clauses of download_index
DownloadIndexHandler(exc) ==
    IF IsInstance(exc, "RepositoryError") THEN Raise("RecursionError")
    ELSE IF IsInstance(exc, "DownloadError") THEN Return("None")
    ELSE Raise(exc)

\* download_distribution absorbing a DownloadError into None
DownloadDistributionHandler_absorbing(exc) ==
    IF IsInstance(exc, "UnsignedMetadataError") THEN Raise("UnsignedMetadataError")
    ELSE IF IsInstance(exc, "RepositoryError") THEN Raise("RepositoryError")
    ELSE IF IsInstance(exc, "DownloadError") THEN Return("None")
    ELSE Raise(exc)

\* the except clauses of download_distribution
DownloadDistributionHandler(exc) ==
    IF IsInstance(exc, "UnsignedMetadataError") THEN Raise("UnsignedMetadataError")
    ELSE IF IsInstance(exc, "RepositoryError") THEN Raise("RepositoryError")
    ELSE Raise(exc)

\* refresh() invocations and failures among recorded calls
RefreshesIn(calls) == Cardinality({i \in 1..Len(calls) : calls[i].fn = "refresh"})

FailuresIn(calls) ==
    Cardinality({i \in 1..Len(calls) :
                    calls[i].fn = "refresh" /\ calls[i].outcome # "ok"})

\* a call that may reach Updater.refresh() stays within the explored bound
MayRefresh == _refreshed \/ refresh_calls < MaxRefreshCalls

\* the record of an operation that has made no call and returned None
NoCall ==
    [op |-> "none", project |-> <<>>, link |-> NoLink, mode |-> "off",
     pre_refreshed |-> FALSE, calls |-> <<>>, result |-> Return("None"),
     base_url |-> <<>>, target_name |-> <<>>, mirror_url |-> <<>>]

Record(op, project, link, mode, calls, result) ==
    /\ last' = [op |-> op, project |-> project, link |-> link, mode |-> mode,
                pre_refreshed |-> _refreshed, calls |-> calls, result |-> result,
                base_url |-> <<>>, target_name |-> <<>>, mirror_url |-> <<>>]
    /\ refresh_calls' = refresh_calls + RefreshesIn(calls)
    /\ refresh_failures' = refresh_failures + FailuresIn(calls)

\* download_index(project_name), the Updater answering r, g, d
download_index(project_name, r, g, d) ==
    LET fresh == _ensure_fresh_metadata(_refreshed, r, "off")
        resolve == Call("get_targetinfo", g, "off")
        fetch == Call("download_target", d, "off")
        calls == IF fresh.exc # "" THEN fresh.calls
                 ELSE IF g # "target" THEN fresh.calls \o <<resolve>>
                 ELSE fresh.calls \o <<resolve, fetch>>
        result == IF fresh.exc # "" THEN DownloadIndexHandler(fresh.exc)
                  ELSE IF g \in UpdaterErrors THEN DownloadIndexHandler(g)
                  ELSE IF g = "None" THEN Return("None")
                  ELSE IF d \in UpdaterErrors THEN DownloadIndexHandler(d)
                  ELSE Return("bytes")
    IN /\ MayRefresh
       /\ progress_bar' = "off"
       /\ _refreshed' = fresh.refreshed
       /\ config' = IF fresh.exc = "" /\ g = "target" THEN "True" ELSE config
       /\ Record("download_index", project_name, NoLink, "off", calls, result)
       /\ UNCHANGED <<_distribution_mirrors, manager_vars, thread_vars>>

\* download_distribution(link, location, progress_bar), the Updater answering r, g, d
download_distribution(link, mode, r, g, d) ==
    LET fresh == _ensure_fresh_metadata(_refreshed, r, "off")
        split == SplitLinks[link]
        reached == fresh.exc = "" /\ split.ok
        resolve == Call("get_targetinfo", g, "off")
        fetch == Call("download_target", d, "off")
        calls == IF ~reached THEN fresh.calls
                 ELSE IF g # "target" THEN fresh.calls \o <<resolve>>
                 ELSE fresh.calls \o <<resolve, fetch>>
        result == IF fresh.exc # "" THEN DownloadDistributionHandler(fresh.exc)
                  ELSE IF ~split.ok THEN Raise("ValueError")
                  ELSE IF g \in UpdaterErrors THEN DownloadDistributionHandler(g)
                  ELSE IF g = "None" THEN Return("None")
                  ELSE IF d \in UpdaterErrors THEN DownloadDistributionHandler(d)
                  ELSE Return("path")
    IN /\ MayRefresh
       /\ progress_bar' = "off"
       /\ _refreshed' = fresh.refreshed
       /\ _distribution_mirrors' =
            IF reached
            THEN _ensure_distribution_mirror_config(_distribution_mirrors, split.base_url)
            ELSE _distribution_mirrors
       /\ config' = IF reached THEN "False" ELSE config
       /\ Record("download_distribution", <<>>, link, mode, calls, result)
       /\ UNCHANGED <<manager_vars, thread_vars>>

\* a direct call of _ensure_fresh_metadata()
EnsureFreshMetadata(r) ==
    LET fresh == _ensure_fresh_metadata(_refreshed, r, progress_bar)
    IN /\ MayRefresh
       /\ _refreshed' = fresh.refreshed
       /\ Record("_ensure_fresh_metadata", <<>>, NoLink, "off", fresh.calls,
                 IF fresh.exc # "" THEN Raise(fresh.exc) ELSE Return("None"))
       /\ UNCHANGED <<progress_bar, config, _distribution_mirrors, manager_vars,
                      thread_vars>>

\* mirror urls handed to _ensure_distribution_mirror_config
MirrorUrls ==
    { _base_url, _base_url \o <<"/">>,
      <<"h", "t", "t", "p", "s", ":", "/", "/", "m", ".", "o", "r", "g", "/", "p">> }

\* a direct call of _split_distribution_url(link)
SplitDistributionUrlCall(link) ==
    LET split == SplitLinks[link]
    IN /\ last' = [NoCall EXCEPT
                    !.op = "_split_distribution_url",
                    !.link = link,
                    !.pre_refreshed = _refreshed,
                    !.result = IF split.ok THEN Return("tuple") ELSE Raise("ValueError"),
                    !.base_url = IF split.ok THEN split.base_url ELSE <<>>,
                    !.target_name = IF split.ok THEN split.target_name ELSE <<>>]
       /\ UNCHANGED <<_refreshed, progress_bar, config, _distribution_mirrors,
                      refresh_calls, refresh_failures, manager_vars, thread_vars>>

\* a direct call of _ensure_distribution_mirror_config(mirror_url)
EnsureDistributionMirrorConfigCall(mirror_url) ==
    /\ _distribution_mirrors' =
           _ensure_distribution_mirror_config(_distribution_mirrors, mirror_url)
    /\ last' = [NoCall EXCEPT
                 !.op = "_ensure_distribution_mirror_config",
                 !.pre_refreshed = _refreshed,
                 !.mirror_url = mirror_url]
    /\ UNCHANGED <<_refreshed, progress_bar, config, refresh_calls,
                   refresh_failures, manager_vars, thread_vars>>

SplitDistributionUrl == \E l \in SplitInputs : SplitDistributionUrlCall(l)

EnsureDistributionMirrorConfig ==
    \E u \in MirrorUrls : EnsureDistributionMirrorConfigCall(u)

DownloadIndex ==
    \E p \in Projects, r \in RefreshOutcomes, g \in TargetinfoOutcomes,
       d \in DownloadTargetOutcomes : download_index(p, r, g, d)

DownloadDistribution ==
    \E l \in Links, m \in ProgressModes, r \in RefreshOutcomes,
       g \in TargetinfoOutcomes, d \in DownloadTargetOutcomes :
        download_distribution(l, m, r, g, d)

EnsureFresh == \E r \in RefreshOutcomes : EnsureFreshMetadata(r)

---------------------------------------------------------------------------
(* SecureRepositoryManager *)

\* SecureRepositoryManager._KNOWN_SECURE_INDEXES
_KNOWN_SECURE_INDEXES == { RepoIndexUrl }

\* names the module secure_repository binds: its imports, classes and logger
ModuleNames ==
    {"hashlib", "logging", "os", "shutil", "urllib", "Dict", "List", "Optional",
     "Tuple", "Session", "Updater", "UpdaterConfig", "FetcherInterface",
     "RepositoryError", "UnsignedMetadataError", "DownloadError",
     "ConfigurationError", "NetworkConnectionError", "Link", "PipFetcher",
     "TempDirectory", "logger", "SecureRepository", "SecureRepositoryManager"}

\* an index url of the allow-list written without its trailing slash
KnownNoSlash == SubSeq(RepoIndexUrl, 1, Len(RepoIndexUrl) - 1)

\* an index url that is not on the allow-list, without trailing slash
OtherNoSlash ==
    <<"h", "t", "t", "p", "s", ":", "/", "/", "e", ".", "o", "r", "g", "/", "s">>

\* index urls a caller configures
IndexUrlInputs == { RepoIndexUrl, KnownNoSlash, OtherNoSlash, <<>> }

\* every list of at most n index urls
RECURSIVE UrlLists(_)
UrlLists(n) ==
    IF n = 0 THEN { <<>> }
    ELSE UrlLists(n - 1)
         \cup { Append(l, u) : l \in { x \in UrlLists(n - 1) : Len(x) = n - 1 },
                               u \in IndexUrlInputs }

\* every string of at most n characters over chars
RECURSIVE Strings(_, _)
Strings(chars, n) ==
    IF n = 0 THEN { <<>> }
    ELSE Strings(chars, n - 1)
         \cup { Append(x, c) : x \in { y \in Strings(chars, n - 1) : Len(y) = n - 1 },
                               c \in chars }

\* project urls handed to get_secure_repository
ProjectUrls ==
    { b \o x : b \in { KnownNoSlash, OtherNoSlash, <<>> },
               x \in Strings({"/", "f"}, MaxSuffixLen) }

\* how SecureRepository(index_url, fetcher, data_dir) may end
CtorOutcomes == {"ok", "MissingLocalRepositoryError", "RepositoryError"}

\* directories of secure_repository_bootstrap shipped with pip
Shipped == {"b1", "b2"}

\* what <tuf_metadata_dir>/<bootstrap> may hold: nothing, the directories
\* without root.json, the shipped root.json, or a root.json TUF has since updated
DiskStates == {"absent", "metadata_dir", "root.json", "updated root.json"}

\* every order os.listdir may list the shipped directories in
ListdirOrders ==
    { o \in [1..Cardinality(Shipped) -> Shipped] :
        \A i, j \in DOMAIN o : i # j => o[i] # o[j] }

\* how bootstrapping one shipped directory may end
BootstrapOutcomes == {"ok", "makedirs_fails", "copyfile_fails"}

\* the first failure aborts _bootstrap_metadata: at most one directory fails
BootstrapRuns ==
    { b \in [Shipped -> BootstrapOutcomes] :
        Cardinality({ n \in Shipped : b[n] # "ok" }) <= 1 }

\* _canonicalize_url leaving the url as it is
_canonicalize_url_unchanged(index_url) ==
    IF index_url = <<>> THEN [exc |-> "IndexError", url |-> <<>>]
    ELSE [exc |-> "", url |-> index_url]

\* _canonicalize_url: [exc, url]; index_url[-1] of the empty string is an IndexError
_canonicalize_url(index_url) ==
    IF index_url = <<>> THEN [exc |-> "IndexError", url |-> <<>>]
    ELSE IF Last(index_url) # "/"
    THEN [exc |-> "", url |-> index_url \o <<"/">>]
    ELSE [exc |-> "", url |-> index_url]

RECURSIVE _bootstrap_metadata(_, _, _)
\* _bootstrap_metadata over the listing order: the disk afterwards and the
\* OSError that escapes ("" for none)
_bootstrap_metadata(disk, order, outs) ==
    IF order = <<>> THEN [fs |-> disk, exc |-> ""]
    ELSE LET bootstrap == Head(order)
         IN IF disk[bootstrap] # "absent"
            THEN _bootstrap_metadata(disk, Tail(order), outs)
            ELSE IF outs[bootstrap] = "makedirs_fails"
            THEN [fs |-> disk, exc |-> "OSError"]
            ELSE IF outs[bootstrap] = "copyfile_fails"
            THEN [fs |-> [disk EXCEPT ![bootstrap] = "metadata_dir"], exc |-> "OSError"]
            ELSE _bootstrap_metadata([disk EXCEPT ![bootstrap] = "root.json"],
                                     Tail(order), outs)

\* the except clauses of _initialize_repositories for an exception of class exc
\* raised while constructing the repository of index_url: "" is fall through
InitializeHandler(exc, index_url) ==
    IF "MissingLocalRepositoryError" \notin ModuleNames THEN "NameError"
    ELSE IF IsInstance(exc, "MissingLocalRepositoryError")
    THEN IF index_url \in _KNOWN_SECURE_INDEXES THEN "ConfigurationError" ELSE ""
    ELSE IF IsInstance(exc, "RepositoryError") THEN "ConfigurationError"
    ELSE exc

RECURSIVE _initialize_repositories(_, _, _, _)
\* _initialize_repositories from position i on: [exc, repositories]
_initialize_repositories(index_urls, outs, i, repositories) ==
    IF i > Len(index_urls) THEN [exc |-> "", repositories |-> repositories]
    ELSE LET canon == _canonicalize_url(index_urls[i])
             handled == InitializeHandler(outs[i], canon.url)
         IN IF canon.exc # "" THEN [exc |-> canon.exc, repositories |-> repositories]
            ELSE IF outs[i] = "ok"
            THEN _initialize_repositories(index_urls, outs, i + 1,
                                          repositories \cup {canon.url})
            ELSE IF handled = ""
            THEN _initialize_repositories(index_urls, outs, i + 1, repositories)
            ELSE [exc |-> handled, repositories |-> repositories]

Lookup(op, index_urls, project_url, result, repository, project, index_url) ==
    [op |-> op, index_urls |-> index_urls, project_url |-> project_url,
     result |-> result, repository |-> repository, project |-> project,
     index_url |-> index_url, again |-> Return("None")]

\* SecureRepositoryManager(index_urls, data_dir, session)
ManagerInit(index_urls, order, boots, outs) ==
    LET boot == _bootstrap_metadata(fs, order, boots)
        repos == _initialize_repositories(index_urls, outs, 1, {})
        exc == IF boot.exc # "" THEN boot.exc ELSE repos.exc
    IN /\ manager = "unconstructed"
       /\ fs' = boot.fs
       /\ manager' = IF exc = "" THEN "constructed" ELSE "failed"
       /\ _repositories' = IF exc = "" THEN repos.repositories ELSE {}
       /\ lookup' = Lookup("__init__", index_urls, <<>>,
                           IF exc = "" THEN Return("None") ELSE Raise(exc),
                           {}, <<>>, <<>>)
       /\ UNCHANGED <<repo_vars, thread_vars>>

\* get_secure_repository(project_url); the repository returned is a set:
\* empty for None
get_secure_repository(project_url) ==
    LET parts == RPartition(RStrip(project_url, "/"), "/")
        project == parts[3]
        canon == _canonicalize_url(parts[1])
        repository == {canon.url} \cap _repositories
        result == IF project = <<>> THEN Raise("ValueError")
                  ELSE IF canon.exc # "" THEN Raise(canon.exc)
                  ELSE IF repository = {} /\ canon.url \in _KNOWN_SECURE_INDEXES
                  THEN Raise("ConfigurationError")
                  ELSE Return("tuple")
    IN /\ manager = "constructed"
       /\ lookup' = Lookup("get_secure_repository", <<>>, project_url, result,
                           IF result.kind = "return" THEN repository ELSE {},
                           IF result.kind = "return" THEN project ELSE <<>>,
                           IF project # <<>> THEN canon.url ELSE <<>>)
       /\ UNCHANGED <<manager, _repositories, fs, repo_vars, thread_vars>>

\* strings handed to _canonicalize_url
CanonicalizeInputs == IndexUrlInputs \cup Strings({"/", "f"}, MaxSuffixLen)

\* what a call of _canonicalize_url gives its caller
Canonicalized(canon) ==
    IF canon.exc # "" THEN Raise(canon.exc) ELSE Return("str")

\* a direct call _canonicalize_url(index_url), and the call on its result
CanonicalizeUrlCall(index_url) ==
    LET canon == _canonicalize_url(index_url)
        again == _canonicalize_url(canon.url)
    IN /\ lookup' = [Lookup("_canonicalize_url", <<>>, index_url,
                             Canonicalized(canon), {}, <<>>, canon.url)
                         EXCEPT !.again = IF canon.exc # "" THEN Raise(canon.exc)
                                          ELSE IF again.exc # "" THEN Raise(again.exc)
                                          ELSE IF again.url = canon.url THEN Return("same")
                                          ELSE Return("other")]
       /\ UNCHANGED <<manager, _repositories, fs, repo_vars, thread_vars>>

\* the pip invocation ends; data_dir stays on disk for the next one
NewInvocation ==
    /\ manager # "unconstructed"
    /\ manager' = "unconstructed"
    /\ _repositories' = {}
    /\ lookup' = Lookup("none", <<>>, <<>>, Return("None"), {}, <<>>, <<>>)
    /\ UNCHANGED <<fs, repo_vars, thread_vars>>

CanonicalizeUrl == \E u \in CanonicalizeInputs : CanonicalizeUrlCall(u)

Construct ==
    \E index_urls \in UrlLists(MaxIndexUrls), order \in ListdirOrders,
       boots \in BootstrapRuns :
        \E outs \in [1..Len(index_urls) -> CtorOutcomes] :
            ManagerInit(index_urls, order, boots, outs)

GetSecureRepository == \E u \in ProjectUrls : get_secure_repository(u)

---------------------------------------------------------------------------
(* A download call of a thread, step by step: download_index and
   download_distribution hold no lock, so the statements of
   _ensure_fresh_metadata of two threads interleave *)

Threads == {"t1", "t2"}

\* a thread enters download_index or download_distribution
Enter(t) ==
    /\ t \in callers
    /\ pc[t] = "idle"
    /\ progress_bar' = "off"
    /\ pc' = [pc EXCEPT ![t] = "check"]
    /\ UNCHANGED <<_refreshed, config, _distribution_mirrors, refresh_calls,
                   refresh_failures, last, manager_vars, callers>>

\* if not self._refreshed
ReadRefreshed(t) ==
    /\ pc[t] = "check"
    /\ pc' = [pc EXCEPT ![t] = IF ~_refreshed THEN "refresh" ELSE "resolve"]
    /\ UNCHANGED <<repo_vars, manager_vars, callers>>

\* self._updater.refresh(), the Updater answering r; an exception ends the call
UpdaterRefresh(t, r) ==
    /\ pc[t] = "refresh"
    /\ refresh_calls < MaxRefreshCalls
    /\ refresh_calls' = refresh_calls + 1
    /\ refresh_failures' = refresh_failures + (IF r = "ok" THEN 0 ELSE 1)
    /\ pc' = [pc EXCEPT ![t] = IF r = "ok" THEN "set" ELSE "idle"]
    /\ UNCHANGED <<_refreshed, progress_bar, config, _distribution_mirrors, last,
                   manager_vars, callers>>

\* SetRefreshed without the assignment
SetRefreshed_forgetting(t) ==
    /\ pc[t] = "set"
    /\ _refreshed' = _refreshed
    /\ pc' = [pc EXCEPT ![t] = "resolve"]
    /\ UNCHANGED <<progress_bar, config, _distribution_mirrors, refresh_calls,
                   refresh_failures, last, manager_vars, callers>>

\* self._refreshed = True
SetRefreshed(t) ==
    /\ pc[t] = "set"
    /\ _refreshed' = TRUE
    /\ pc' = [pc EXCEPT ![t] = "resolve"]
    /\ UNCHANGED <<progress_bar, config, _distribution_mirrors, refresh_calls,
                   refresh_failures, last, manager_vars, callers>>

\* how the rest of a call leaves the Updater's config
ResolveKinds == {"index without target", "index", "distribution"}

\* the call goes on to resolve its target, having set the Updater's config
\* when it is a download_distribution or finds its index target, and ends
Resolve(t, kind) ==
    /\ pc[t] = "resolve"
    /\ config' = IF kind = "distribution" THEN "False"
                 ELSE IF kind = "index" THEN "True"
                 ELSE config
    /\ pc' = [pc EXCEPT ![t] = "idle"]
    /\ UNCHANGED <<_refreshed, progress_bar, _distribution_mirrors, refresh_calls,
                   refresh_failures, last, manager_vars, callers>>

---------------------------------------------------------------------------
(* Specifications *)

NoOperation == NoCall

\* SecureRepository.__init__ has run; no SecureRepositoryManager exists yet
Init ==
    /\ _refreshed = FALSE
    /\ progress_bar = "on"
    /\ config = "default"
    /\ _distribution_mirrors = InitialDistributionMirrors
    /\ refresh_calls = 0
    /\ refresh_failures = 0
    /\ last = NoOperation
    /\ manager = "unconstructed"
    /\ _repositories = {}
    /\ fs = [b \in Shipped |-> "absent"]
    /\ lookup = Lookup("none", <<>>, <<>>, Return("None"), {}, <<>>, <<>>)
    /\ pc = [t \in Threads |-> "idle"]
    /\ callers = {"t1"}

Next ==
    \/ DownloadIndex
    \/ DownloadDistribution
    \/ EnsureFresh

Spec == Init /\ [][Next]_vars

NextManager ==
    \/ Construct
    \/ GetSecureRepository
    \/ CanonicalizeUrl
    \/ NewInvocation

\* a pip invocation starts on whatever earlier invocations left in data_dir
InitManager ==
    /\ _refreshed = FALSE
    /\ progress_bar = "on"
    /\ config = "default"
    /\ _distribution_mirrors = InitialDistributionMirrors
    /\ refresh_calls = 0
    /\ refresh_failures = 0
    /\ last = NoOperation
    /\ manager = "unconstructed"
    /\ _repositories = {}
    /\ fs \in [Shipped -> DiskStates \ {"metadata_dir"}]
    /\ lookup = Lookup("none", <<>>, <<>>, Return("None"), {}, <<>>, <<>>)
    /\ pc = [t \in Threads |-> "idle"]
    /\ callers = {"t1"}

SpecManager == InitManager /\ [][NextManager]_vars

\* the link and mirror operations of a SecureRepository
NextLinks ==
    \/ SplitDistributionUrl
    \/ EnsureDistributionMirrorConfig
    \/ DownloadDistribution

SpecLinks == Init /\ [][NextLinks]_vars

\* one thread, or two, calling into the same SecureRepository
NextThreads ==
    \/ \E t \in Threads : Enter(t)
    \/ \E t \in Threads : ReadRefreshed(t)
    \/ \E t \in Threads : \E r \in RefreshOutcomes : UpdaterRefresh(t, r)
    \/ \E t \in Threads : SetRefreshed(t)
    \/ \E t \in Threads : \E k \in ResolveKinds : Resolve(t, k)

InitThreads ==
    /\ _refreshed = FALSE
    /\ progress_bar = "on"
    /\ config = "default"
    /\ _distribution_mirrors = InitialDistributionMirrors
    /\ refresh_calls = 0
    /\ refresh_failures = 0
    /\ last = NoOperation
    /\ manager = "unconstructed"
    /\ _repositories = {}
    /\ fs = [b \in Shipped |-> "absent"]
    /\ lookup = Lookup("none", <<>>, <<>>, Return("None"), {}, <<>>, <<>>)
    /\ pc = [t \in Threads |-> "idle"]
    /\ callers \in {{"t1"}, Threads}

SpecThreads == InitThreads /\ [][NextThreads]_vars

---------------------------------------------------------------------------
(* Properties of SecureRepository, checked under Spec *)

IsDownload == last.op \in {"download_index", "download_distribution"}

\* the last operation made a call to fn of the Updater that ended in outcome
Called(fn, outcome) ==
    \E i \in 1..Len(last.calls) :
        last.calls[i].fn = fn /\ last.calls[i].outcome = outcome

\* the last operation made a call to the Updater that raised an exception of kind
Raised(fns, kind) ==
    \E i \in 1..Len(last.calls) :
        last.calls[i].fn \in fns /\ last.calls[i].outcome \in kind

UpdaterCalls == {"refresh", "get_targetinfo", "download_target"}

\* C1: whenever the Updater raises a repository-error kind (unsigned metadata
\* included) during refresh, get_targetinfo or download_target, download_index
\* and download_distribution raise: no bytes, None or path is returned.
C1_TrustFailureNeverDowngraded ==
    IsDownload /\ Raised(UpdaterCalls, RepositoryErrors) => last.result.kind = "raise"

\* download_index met unsigned metadata while downloading the target and raised
C1_Witness ==
    /\ last.op = "download_index"
    /\ Called("download_target", "UnsignedMetadataError")
    /\ last.result = Raise("RecursionError")

C5_RefreshFailureRaises ==
    IsDownload /\ Raised({"refresh"}, UpdaterErrors) => last.result.kind = "raise"

\* C5 as amended: a refresh() failure ends the operation with no further Updater
\* call; it raises to the caller, except that download_index absorbs a
\* download-error refresh failure and returns None.
C5_RefreshFailureRaisesUnlessIndexDownloadError ==
    IsDownload /\ Raised({"refresh"}, UpdaterErrors) =>
        /\ Len(last.calls) = 1
        /\ IF last.op = "download_index" /\ Raised({"refresh"}, DownloadErrors)
           THEN last.result = Return("None")
           ELSE last.result.kind = "raise"

\* download_index returned None because refresh() met a transport failure
C5_Witness ==
    /\ last.op = "download_index"
    /\ last.calls = <<Call("refresh", "DownloadError", "off")>>
    /\ last.result = Return("None")

FreshMetadata == ~Raised({"refresh"}, UpdaterErrors)

\* C7: on fresh metadata download_index returns None, and does not raise, when
\* get_targetinfo resolves nothing and when get_targetinfo or download_target
\* raises a download-error kind; it returns bytes only when the target resolved
\* and download_target succeeded.
C7_IndexAbsentNotError ==
    last.op = "download_index" /\ FreshMetadata =>
        /\ Called("get_targetinfo", "None") => last.result = Return("None")
        /\ Raised({"get_targetinfo", "download_target"}, DownloadErrors)
              => last.result = Return("None")
        /\ last.result = Return("bytes")
              => Called("get_targetinfo", "target") /\ Called("download_target", "path")

\* the verified download of a resolved index page met a transport failure
C7_Witness ==
    /\ last.op = "download_index"
    /\ Called("get_targetinfo", "target")
    /\ Called("download_target", "DownloadError")
    /\ last.result = Return("None")

\* C8: a download-error kind raised by get_targetinfo or download_target inside
\* download_distribution reaches the caller as NetworkConnectionError.
C8_TransportFailureIsNetworkConnectionError ==
    last.op = "download_distribution"
    /\ Raised({"get_targetinfo", "download_target"}, DownloadErrors)
        => last.result = Raise("NetworkConnectionError")

\* C9: download_distribution never returns None: an unresolved target raises,
\* and every normal return is the path of the downloaded artifact.
C9_DistributionNeverAbsent ==
    last.op = "download_distribution" =>
        /\ Called("get_targetinfo", "None") => last.result.kind = "raise"
        /\ last.result.kind = "return" => last.result.value = "path"

\* links whose hash path is not 64 characters long
MalformedLinks == { LinkShort, LinkNoDirs }

---------------------------------------------------------------------------
(* Properties of SecureRepositoryManager, checked under SpecManager *)

\* index_urls names the index url u, with or without its trailing slash
Names(index_urls, u) ==
    \E i \in 1..Len(index_urls) :
        index_urls[i] = u \/ index_urls[i] \o <<"/">> = u

\* C2: for an index url of the allow-list, construction (its trust anchors
\* bootstrapped) ends with a repository registered for the url or raises
\* ConfigurationError; stated for the lists that name the url.
C2_KnownSecureRegisteredOrConfigurationError ==
    \A u \in _KNOWN_SECURE_INDEXES :
        /\ lookup.op = "__init__"
        /\ Names(lookup.index_urls, u)
        /\ lookup.result.value \notin {"OSError", "IndexError"}
        => \/ lookup.result.kind = "return" /\ u \in _repositories
           \/ lookup.result = Raise("ConfigurationError")

\* project urls whose index part is the index url u: u, an optional extra
\* slash, a project name, trailing slashes
ProjectUrlsOf(u) ==
    { u \o s \o p \o t : s \in {<<>>, <<"/">>},
                         p \in Strings({"f"}, MaxSuffixLen) \ {<<>>},
                         t \in Strings({"/"}, MaxSuffixLen) }

\* C3: for a project url whose index part is on the allow-list,
\* get_secure_repository never returns (None, project): with no repository
\* registered for the index it raises ConfigurationError, whatever the spelling.
C3_KnownSecureNeverNone ==
    \A u \in _KNOWN_SECURE_INDEXES :
        lookup.op = "get_secure_repository" /\ lookup.project_url \in ProjectUrlsOf(u)
        => /\ ~(lookup.result.kind = "return" /\ lookup.repository = {})
           /\ u \notin _repositories => lookup.result = Raise("ConfigurationError")
           /\ u \in _repositories => lookup.result = Return("tuple")
                                     /\ lookup.repository = {u}

\* a project url of the allow-listed index, spelled with a trailing slash, was
\* looked up in a manager holding no repository for it
C3_Witness ==
    /\ lookup.op = "get_secure_repository"
    /\ lookup.project_url = RepoIndexUrl \o <<"f", "/">>
    /\ RepoIndexUrl \notin _repositories
    /\ lookup.result = Raise("ConfigurationError")

---------------------------------------------------------------------------
(* Properties of the link and mirror operations, checked under SpecLinks *)

HexDigits ==
    {"0", "1", "2", "3", "4", "5", "6", "7", "8", "9",
     "a", "b", "c", "d", "e", "f", "A", "B", "C", "D", "E", "F"}

\* the '/'-separated segments of the link's path
Segments(link) == Split(link.path, "/")

\* the link has three path segments before its filename and they concatenate to
\* exactly 64 hexadecimal characters
FormsHash(link) ==
    LET segs == Segments(link)
        n == Len(segs)
    IN /\ n >= 4
       /\ LET h == segs[n - 3] \o segs[n - 2] \o segs[n - 1]
          IN Len(h) = 64 /\ \A i \in 1..Len(h) : h[i] \in HexDigits

\* the link's url without query and fragment
UrlOf(link) == link.scheme \o <<":", "/", "/">> \o link.netloc \o link.path

\* C11: _split_distribution_url raises ValueError for every link whose three
\* path segments before the filename do not concatenate to exactly 64
\* hexadecimal characters (wrong length, too few segments, or not hexadecimal).
C11_MalformedHashPathRaises ==
    last.op = "_split_distribution_url" /\ ~FormsHash(last.link)
        => last.result = Raise("ValueError")

\* C12: for a well-formed link _split_distribution_url returns the last four
\* path segments joined by '/' as target name and a base url that ends in '/',
\* and base url followed by target name is the link's url.
C12_SplitReproducesUrl ==
    last.op = "_split_distribution_url" /\ FormsHash(last.link) =>
        /\ last.result = Return("tuple")
        /\ last.target_name = Join(<<"/">>, SliceFromEnd(Segments(last.link), 4, 0))
        /\ last.base_url # <<>> /\ Last(last.base_url) = "/"
        /\ last.base_url \o last.target_name = UrlOf(last.link)

\* C13: the mirror configuration keeps one entry per mirror base, keyed by its
\* url_prefix; an entry the upsert added has no metadata_path; no operation
\* changes or removes an existing entry, and registering a base already present
\* changes nothing.
C13_MirrorUpsertIdempotent ==
    /\ [](\A u \in DOMAIN _distribution_mirrors :
            /\ _distribution_mirrors[u].url_prefix = u
            /\ u = _base_url => _distribution_mirrors[u] = InitialDistributionMirrors[u]
            /\ u # _base_url =>
                  _distribution_mirrors[u] = [url_prefix |-> u, targets_path |-> <<>>])
    /\ [][/\ \A u \in DOMAIN _distribution_mirrors :
                /\ u \in DOMAIN _distribution_mirrors'
                /\ _distribution_mirrors'[u] = _distribution_mirrors[u]
          /\ last'.mirror_url \in DOMAIN _distribution_mirrors
                => _distribution_mirrors' = _distribution_mirrors]_vars

\* the repository's own base, present since construction with its
\* metadata_path, was registered again beside a mirror added earlier
C13_Witness ==
    /\ last.op = "_ensure_distribution_mirror_config"
    /\ last.mirror_url = _base_url
    /\ Cardinality(DOMAIN _distribution_mirrors) >= 2
    /\ "metadata_path" \in DOMAIN _distribution_mirrors[_base_url]

---------------------------------------------------------------------------
(* Further properties of SecureRepositoryManager, checked under SpecManager *)

\* C14: _canonicalize_url is total and idempotent: for every string, the empty
\* one included, it returns a string ending in '/', the input itself when that
\* already ends in '/', and canonicalizing the result returns the result.
C14_CanonicalizeTotalIdempotent ==
    lookup.op = "_canonicalize_url" =>
        /\ lookup.result = Return("str")
        /\ lookup.index_url # <<>> /\ Last(lookup.index_url) = "/"
        /\ (lookup.project_url # <<>> /\ Last(lookup.project_url) = "/")
              => lookup.index_url = lookup.project_url
        /\ lookup.again = Return("same")

\* the final '/'-segment of a project url, trailing slashes aside
FinalSegment(project_url) ==
    LET segs == Split(RStrip(project_url, "/"), "/")
    IN segs[Len(segs)]

\* the project url without its final segment and trailing slashes, ending in
\* exactly the slash that separated them
Remainder(project_url) ==
    LET stripped == RStrip(project_url, "/")
    IN SubSeq(stripped, 1, Len(stripped) - Len(FinalSegment(project_url)))

\* C15: for every project url get_secure_repository raises ValueError when the
\* url has no final segment, and otherwise returns that segment as project name
\* with the repository registered under the canonicalized remainder (or raises
\* the allow-list's ConfigurationError); parsing raises no other kind of error.
C15_ParsingRaisesOnlyValueError ==
    lookup.op = "get_secure_repository" =>
        IF FinalSegment(lookup.project_url) = <<>>
        THEN lookup.result = Raise("ValueError")
        ELSE \/ lookup.result = Raise("ConfigurationError")
             \/ /\ lookup.result = Return("tuple")
                /\ lookup.project = FinalSegment(lookup.project_url)
                /\ lookup.repository \subseteq _repositories
                /\ \A u \in lookup.repository :
                      RStrip(u, "/") = RStrip(Remainder(lookup.project_url), "/")

\* C19: a construction whose _bootstrap_metadata completed leaves every shipped
\* root.json on disk, also where an earlier attempt had failed after creating
\* the directory and before copying the file.
C19_BootstrapLeavesEveryRoot ==
    lookup.op = "__init__" /\ lookup.result.value # "OSError" =>
        \A b \in Shipped : fs[b] \in {"root.json", "updated root.json"}

---------------------------------------------------------------------------
(* Further properties of SecureRepository, checked under Spec *)

\* the calls that resolve or fetch a target
Resolutions == {"get_targetinfo", "download_target"}

\* C16: refresh is lazy and precedes every resolution: a constructed repository
\* has invoked no refresh, and get_targetinfo and download_target are invoked
\* only once a refresh has succeeded, before the call or earlier in it, so
\* that _refreshed is true.
C16_RefreshPrecedesResolution ==
    /\ last.op = "none" => refresh_calls = 0 /\ ~_refreshed
    /\ \A i \in 1..Len(last.calls) :
          last.calls[i].fn \in Resolutions =>
              /\ _refreshed
              /\ refresh_calls - refresh_failures >= 1
              /\ \/ last.pre_refreshed
                 \/ \E j \in 1..(i - 1) :
                       last.calls[j] = Call("refresh", "ok", last.calls[j].progress)

C16_Witness ==
    /\ IsDownload
    /\ ~last.pre_refreshed
    /\ Len(last.calls) >= 2
    /\ last.calls[1].fn = "refresh" /\ last.calls[1].outcome = "ok"
    /\ last.calls[2].fn = "get_targetinfo"

\* C17: in download_index and download_distribution the fetcher's progress mode
\* is "off" at every refresh, get_targetinfo and index-page download_target,
\* and is the caller's progress_bar argument when download_distribution
\* invokes download_target.
C17_ProgressModeFollowsCaller ==
    IsDownload =>
        \A i \in 1..Len(last.calls) :
            last.calls[i].progress =
                IF last.op = "download_distribution"
                   /\ last.calls[i].fn = "download_target"
                THEN last.mode
                ELSE "off"

---------------------------------------------------------------------------
(* The one-shot refresh guard under concurrent callers, checked under
   SpecThreads *)

\* C18: the refresh guard is not atomic: Updater.refresh() succeeds at most
\* once per calling thread, hence at most once under a single caller, while
\* two threads can both read _refreshed = False and both invoke refresh.
C18_NoDoubleRefreshUnderSingleCaller ==
    /\ refresh_calls - refresh_failures <= Cardinality(callers)
    /\ Cardinality(callers) = 1 =>
          /\ refresh_calls - refresh_failures <= 1
          /\ _refreshed => \A t \in callers : pc[t] # "refresh"

\* both threads read _refreshed = False and both have invoked refresh
C18_Witness ==
    /\ callers = Threads
    /\ \A t \in Threads : pc[t] = "set"
    /\ ~_refreshed
    /\ refresh_calls = 2 /\ refresh_failures = 0

====
